---- MODULE Spec2Model ----
(***************************************************************************)
(* Model of src-tauri/src/docx_processor.py: one run of                    *)
(* create_track_changes_document on an original text, a batch of edit      *)
(* records and document metadata.  Strings are sequences of one-character  *)
(* strings; a Python dict with optional keys is a function whose DOMAIN    *)
(* holds the keys that are present.                                        *)
(***************************************************************************)
EXTENDS Integers, Sequences, FiniteSets, TLC

VARIABLES
    DOCX_AVAILABLE,   \* module global set by the import at lines 13-21
    original_text,    \* argument of create_track_changes_document
    changes,          \* argument: the submitted list of edit records
    metadata,         \* argument: document metadata
    pc,               \* position in create_track_changes_document
    steps,            \* the calls of create_track_changes_document completed so far
    error,            \* the exception that left create_track_changes_document
    doc,              \* the python-docx Document being built
    sorted_changes,   \* apply_track_changes_to_text: local sorted_changes
    next_change,      \* apply_track_changes_to_text: index of the for loop
    result,           \* apply_track_changes_to_text: local result
    change_markers,   \* apply_track_changes_to_text: local change_markers
    spliced,          \* ids whose marker has been spliced, in splice order
    paragraphs,       \* add_tracked_content: local paragraphs
    next_para,        \* add_tracked_content: index of the for loop
    para_text,        \* add_tracked_runs_to_paragraph: argument text
    last_end,         \* add_tracked_runs_to_paragraph: local last_end
    built,            \* the fragment markups built by the add_*_run calls
    warnings,         \* number of warnings printed to stderr
    saved             \* whether doc.save returned

vars == <<DOCX_AVAILABLE, original_text, changes, metadata, pc, steps, error, doc,
          sorted_changes, next_change, result, change_markers, spliced,
          paragraphs, next_para, para_text, last_end, built, warnings, saved>>

-----------------------------------------------------------------------------
(* Bounds of the inputs. *)
MaxEdits == 2

-----------------------------------------------------------------------------
(* Python string primitives. *)

Min(a, b) == IF a < b THEN a ELSE b

\* s[lo:hi] for 0 <= lo, 0 <= hi: both ends are clamped to len(s).
PySlice(s, lo, hi) ==
    LET l == Min(lo, Len(s))
        h == Min(hi, Len(s))
    IN  IF l >= h THEN <<>> ELSE SubSeq(s, l + 1, h)

\* s[lo:]
PyFrom(s, lo) == PySlice(s, lo, Len(s))

\* s.startswith(lit, i), i a 0-based offset
StartsWithAt(s, i, lit) ==
    /\ i + Len(lit) <= Len(s)
    /\ \A k \in 1..Len(lit) : s[i + k] = lit[k]

NL == "\n"

\* Characters str.strip() removes (those the inputs can hold).
IsSpace(c) == c \in {" ", NL}

\* not s.strip()
IsBlank(s) == \A k \in 1..Len(s) : IsSpace(s[k])

-----------------------------------------------------------------------------
(* escape_xml, lines 223-229: five chained str.replace calls. *)

\* The members of a sequence of strings, concatenated in order.
RECURSIVE ConcatUpTo(_, _)
ConcatUpTo(seqs, n) == IF n = 0 THEN <<>> ELSE ConcatUpTo(seqs, n - 1) \o seqs[n]

Concat(seqs) == ConcatUpTo(seqs, Len(seqs))

\* s.replace(ch, rep) for a one-character ch
Replace(s, ch, rep) ==
    Concat([k \in 1..Len(s) |-> IF s[k] = ch THEN rep ELSE <<s[k]>>])

escape_xml(text) ==
    Replace(Replace(Replace(Replace(Replace(text,
        "&", <<"&", "a", "m", "p", ";">>),
        "<", <<"&", "l", "t", ";">>),
        ">", <<"&", "g", "t", ";">>),
        "\"", <<"&", "q", "u", "o", "t", ";">>),
        "'", <<"&", "a", "p", "o", "s", ";">>)

-----------------------------------------------------------------------------
(* The marker syntax of lines 113, 118 and 141. *)

TRACK == <<"T", "R", "A", "C", "K", "_">>
INS == <<"I", "N", "S">>
DEL == <<"D", "E", "L">>

KindTag(change_type) == IF change_type = "insertion" THEN INS ELSE DEL

\* "[TRACK_<KIND>_<id>]"
OpenTag(kind, id) == <<"[">> \o TRACK \o kind \o <<"_">> \o id \o <<"]">>

\* "[/TRACK_<KIND>_<id>]"
CloseTag(kind, id) == <<"[", "/">> \o TRACK \o kind \o <<"_">> \o id \o <<"]">>

\* f"[TRACK_INS_{change_id}]{content}[/TRACK_INS_{change_id}]" and its DEL twin
Marker(change_type, change_id, content) ==
    OpenTag(KindTag(change_type), change_id) \o content
        \o CloseTag(KindTag(change_type), change_id)

-----------------------------------------------------------------------------
(* apply_track_changes_to_text, lines 89-121. *)

\* A sort that puts a record before the records of its position (ties come
\* out in the reverse of the submitted order).
RECURSIVE InsertByPositionDesc_TiesReversed(_, _)
InsertByPositionDesc_TiesReversed(sorted, c) ==
    IF sorted = <<>> THEN <<c>>
    ELSE IF Head(sorted).position > c.position
         THEN <<Head(sorted)>> \o InsertByPositionDesc_TiesReversed(Tail(sorted), c)
         ELSE <<c>> \o sorted

\* list.sort is stable, and reverse=True keeps the submitted order of records
\* with equal keys: c goes after every record whose position is >= its own.
RECURSIVE InsertByPositionDesc(_, _)
InsertByPositionDesc(sorted, c) ==
    IF sorted = <<>> THEN <<c>>
    ELSE IF Head(sorted).position >= c.position
         THEN <<Head(sorted)>> \o InsertByPositionDesc(Tail(sorted), c)
         ELSE <<c>> \o sorted

\* No sort at all: the edits are spliced as submitted.
SortedByPositionDesc_Unsorted(cs) == cs

\* sorted(changes, key=lambda x: x['position'], reverse=True), line 92
RECURSIVE SortedByPositionDesc(_)
SortedByPositionDesc(cs) ==
    IF cs = <<>> THEN <<>>
    ELSE InsertByPositionDesc(SortedByPositionDesc(SubSeq(cs, 1, Len(cs) - 1)),
                              cs[Len(cs)])

\* change.get(key, default)
Get(change, key, default) == IF key \in DOMAIN change THEN change[key] ELSE default

\* datetime.now().isoformat(): the processing time
NOW == <<"n", "o", "w">>

SMAIRS == <<"S", "M", "A", "I", "R", "S">>

\* lines 104-109
MarkerMeta(change) ==
    [type |-> change.type,
     author |-> Get(change, "author", SMAIRS),
     date |-> Get(change, "date", NOW),
     comment |-> Get(change, "comment", <<>>)]

\* One iteration of the loop body, lines 111-119, on the text so far.
Splice(text, change) ==
    LET pos == change.position
        content == change.content
        marker == Marker(change.type, change.id, content)
    IN  IF change.type = "insertion"
        THEN PySlice(text, 0, pos) \o marker \o PyFrom(text, pos)
        ELSE IF change.type = "deletion"
        THEN PySlice(text, 0, pos) \o marker \o PyFrom(text, pos + Len(content))
        ELSE text

\* The whole loop over an already sorted list.
RECURSIVE SpliceAll(_, _)
SpliceAll(text, cs) ==
    IF cs = <<>> THEN text ELSE SpliceAll(Splice(text, Head(cs)), Tail(cs))

\* apply_track_changes_to_text as a function of its arguments
apply_track_changes_to_text(text, cs) == SpliceAll(text, SortedByPositionDesc(cs))

-----------------------------------------------------------------------------
(* The regular expression of line 141 and re.finditer, lines 141-145:       *)
(*   \[TRACK_(INS|DEL)_([^\]]+)\](.*?)\[/TRACK_\1_\2\]                      *)

NoMatch == [ok |-> FALSE]

\* The least member of a non-empty set of integers.
Least(S) == CHOOSE x \in S : \A y \in S : x <= y

\* Group 2, [^\]]+ followed by \]: the id runs to the first "]" after the
\* opening literal and is not empty.  from is the 0-based offset of its start;
\* the value is the offset of that "]", or -1.
IdEnd(text, from) ==
    LET close == {j \in from..(Len(text) - 1) : text[j + 1] = "]"}
    IN  IF close = {} \/ Least(close) = from THEN -1 ELSE Least(close)

\* Group 3, (.*?) followed by the closing tag: the first offset e >= from at
\* which the closing tag starts, provided no line break lies in text[from:e]
\* ("." does not match a line break); -1 if there is none.
ContentEnd(text, from, closing) ==
    LET ends == {e \in from..Len(text) :
                    /\ StartsWithAt(text, e, closing)
                    /\ \A k \in (from + 1)..e : text[k] # NL}
    IN  IF ends = {} THEN -1 ELSE Least(ends)

\* The match of the pattern that starts at 0-based offset s, if any.
MatchAt(text, s) ==
    LET kindAt == s + 1 + Len(TRACK)
        kind == IF StartsWithAt(text, kindAt, INS) THEN INS ELSE DEL
        idAt == kindAt + Len(kind) + 1
        idEnd == IdEnd(text, idAt)
        id == PySlice(text, idAt, idEnd)
        contentAt == idEnd + 1
        closing == CloseTag(kind, id)
        contentEnd == ContentEnd(text, contentAt, closing)
    IN  IF /\ StartsWithAt(text, s, <<"[">> \o TRACK)
           /\ StartsWithAt(text, kindAt, INS) \/ StartsWithAt(text, kindAt, DEL)
           /\ StartsWithAt(text, kindAt + Len(kind), <<"_">>)
           /\ idEnd # -1
           /\ contentEnd # -1
        THEN [ok |-> TRUE, start |-> s, end |-> contentEnd + Len(closing),
              kind |-> kind, id |-> id,
              content |-> PySlice(text, contentAt, contentEnd)]
        ELSE NoMatch

\* The next match re.finditer yields when it resumes the scan at offset from.
NextMatch(text, from) ==
    LET starts == {s \in from..(Len(text) - 1) : MatchAt(text, s).ok}
    IN  IF starts = {} THEN NoMatch ELSE MatchAt(text, Least(starts))

-----------------------------------------------------------------------------
(* text.split('\n\n'), line 127 *)

RECURSIVE Split(_)
Split(s) ==
    LET seps == {i \in 0..(Len(s) - 2) : StartsWithAt(s, i, <<NL, NL>>)}
    IN  IF seps = {} THEN <<s>>
        ELSE <<PySlice(s, 0, Least(seps))>> \o Split(PyFrom(s, Least(seps) + 2))

-----------------------------------------------------------------------------
(* The scan of add_tracked_runs_to_paragraph, lines 143-177, as the sequence *)
(* of segments it hands on: plain text, or one edit's kind, id and content.  *)

RECURSIVE SegmentsFrom(_, _)
SegmentsFrom(text, from) ==
    LET match == NextMatch(text, from)
    IN  IF ~ match.ok
        THEN IF from < Len(text)
             THEN <<[kind |-> "plain", text |-> PyFrom(text, from)]>>
             ELSE <<>>
        ELSE (IF match.start > from
              THEN <<[kind |-> "plain", text |-> PySlice(text, from, match.start)]>>
              ELSE <<>>)
             \o <<[kind |-> match.kind, id |-> match.id, text |-> match.content]>>
             \o SegmentsFrom(text, match.end)

Segments(text) == SegmentsFrom(text, 0)

-----------------------------------------------------------------------------
(* The document tree python-docx holds: settings, core properties and the   *)
(* body, a list of paragraphs, each a list of runs and revision elements.    *)

NoDoc == [created |-> FALSE]

\* Document(), line 31
NewDocument ==
    [created |-> TRUE, trackRevisions |-> FALSE, core |-> <<>>, body |-> <<>>]

\* para.add_run(text): a run with no direct formatting
PlainRun(text) == [tag |-> "w:r", text |-> text, highlight |-> 0, strike |-> FALSE]

\* The markup of lines 184-190 (kind "ins") and 206-212 (kind "del"): the
\* element name and the four strings the f-string embeds, as embedded.
FragmentMarkup(kind, content, change_id, change_meta) ==
    [tag |-> IF kind = INS THEN "w:ins" ELSE "w:del",
     id |-> change_id,
     author |-> escape_xml(change_meta.author),
     date |-> change_meta.date,
     text |-> escape_xml(content)]

\* An except branch that only prints the warning.
FallbackRun_Unmarked(kind, content) == PlainRun(content)

\* The except branches, lines 196-199 and 217-221: the run stays, marked.
FallbackRun(kind, content) ==
    IF kind = INS
    THEN [tag |-> "w:r", text |-> content, highlight |-> 3, strike |-> FALSE]
    ELSE [tag |-> "w:r", text |-> content, highlight |-> 7, strike |-> TRUE]

\* The five entity references escape_xml writes.
Entities ==
    {<<"&", "a", "m", "p", ";">>, <<"&", "l", "t", ";">>, <<"&", "g", "t", ";">>,
     <<"&", "q", "u", "o", "t", ";">>, <<"&", "a", "p", "o", "s", ";">>}

\* Whether every "&" of s starts an entity reference.
AmpersandsEscaped(s) ==
    \A k \in 1..Len(s) :
        s[k] = "&" => \E e \in Entities : StartsWithAt(s, k - 1, e)

\* parse_xml, lines 194 and 215, on a double-quoted attribute value: the XML
\* parser rejects a raw "<", a raw double quote and a bare "&" there.
AttributeParses(s) ==
    /\ \A k \in 1..Len(s) : s[k] \notin {"<", "\""}
    /\ AmpersandsEscaped(s)

\* Whether parse_xml can accept the markup at all; the id and the date are
\* the strings embedded as they are.
MarkupParses(markup) == AttributeParses(markup.id) /\ AttributeParses(markup.date)

\* next((c for c in changes if c['id'] == change_id), None) and the default
\* of lines 158-163.
ChangeMeta(cs, change_id) ==
    LET found == {k \in 1..Len(cs) : cs[k].id = change_id}
    IN  IF found = {}
        THEN [author |-> SMAIRS, date |-> NOW, comment |-> <<>>]
        ELSE cs[Least(found)]

\* The paragraph doc.add_paragraph() returned last, with a run appended.
AppendRun(d, run) ==
    [d EXCEPT !.body[Len(d.body)] = Append(@, run)]

\* run._element.getparent().replace(run._element, elem): the last run of the
\* last paragraph gives way to elem.
ReplaceLastRun(d, elem) ==
    [d EXCEPT !.body[Len(d.body)] = [@ EXCEPT ![Len(@)] = elem]]

\* ', '.join(list)
RECURSIVE Join(_)
Join(list) ==
    IF list = <<>> THEN <<>>
    ELSE IF Len(list) = 1 THEN list[1]
    ELSE list[1] \o <<",", " ">> \o Join(Tail(list))

\* set_document_metadata, lines 74-87, as the core properties it leaves.
CoreProperties(md) ==
    [title |-> Get(md, "title", <<>>),
     author |-> IF "author" \in DOMAIN md
                THEN (IF md.author.isList THEN Join(md.author.value)
                      ELSE md.author.value)
                ELSE <<>>,
     subject |-> Get(md, "subject", <<>>),
     created |-> NOW,
     modified |-> NOW]

-----------------------------------------------------------------------------
(* The inputs main reads from the JSON file, lines 240-245. *)

\* Ids are unique within a batch: the k-th submitted edit carries the k-th of
\* these.  The second holds a reserved markup character.
EditIds == <<<<"1">>, <<"&">>, <<"3">>, <<"4">>>>

\* An Insertion's content: a reserved character, a line break, a blank line.
Contents == {<<"<">>, <<NL>>, <<"<", NL, NL, "<">>}

AUTHOR == <<"O", "'", "N">>
DATE == <<"d">>

\* The edits a batch on text can hold, before their ids: an Insertion of a
\* content at a position of the text, a Deletion of a non-empty substring of
\* the text at its position; each with no author and date, or with both.
BareEdits(text) ==
    {[id |-> <<>>, type |-> "insertion", position |-> p, content |-> c] :
        p \in 0..Len(text), c \in Contents}
    \cup
    {[id |-> <<>>, type |-> "deletion", position |-> e[1],
      content |-> PySlice(text, e[1], e[2])] :
        e \in {x \in (0..Len(text)) \X (0..Len(text)) : x[1] < x[2]}}

EditRecords(text) ==
    LET bare == BareEdits(text)
    IN  bare
        \cup {[id |-> b.id, type |-> b.type, position |-> b.position,
               content |-> b.content, author |-> AUTHOR, date |-> DATE] : b \in bare}

\* The batches of at most MaxEdits of the given edits.
Batches(records) ==
    UNION {{[k \in 1..n |-> [b[k] EXCEPT !.id = EditIds[k]]] :
                b \in [1..n -> records]} : n \in 0..MaxEdits}

PlainText == <<"a", "b">>

ListMetadata ==
    [title |-> <<"t">>,
     author |-> [isList |-> TRUE, value |-> <<<<"x">>, <<"y">>>>]]
StringMetadata ==
    [author |-> [isList |-> FALSE, value |-> <<"x">>], subject |-> <<"s">>]

\* The inputs of Spec: the text "ab" with every batch on it, and the empty
\* text.
Inputs ==
    {[text |-> PlainText, changes |-> b, metadata |-> ListMetadata] :
        b \in Batches(EditRecords(PlainText))}
    \cup
    {[text |-> <<>>, changes |-> <<>>, metadata |-> m] :
        m \in {<<>>, StringMetadata}}

\* Original texts that hold marker syntax of their own: a marker inside
\* another marker's span, and an opening tag closed by a tag of another kind.
NestedText ==
    OpenTag(INS, <<"9">>) \o Marker("deletion", <<"8">>, <<"a">>)
        \o CloseTag(INS, <<"9">>)
MismatchedText == OpenTag(INS, <<"9">>) \o <<"a">> \o CloseTag(DEL, <<"9">>)

\* The inputs of SpecMarked: such a text, with batches of Insertions at its
\* end.
MarkedInputs ==
    {[text |-> in[1], changes |-> in[2], metadata |-> in[3]] :
        in \in UNION {{t} \X Batches({e \in EditRecords(t) :
                                        /\ e.type = "insertion"
                                        /\ e.position = Len(t)})
                          \X {<<>>, StringMetadata} :
                      t \in {NestedText, MismatchedText}}}

-----------------------------------------------------------------------------
(* The state machine. *)

InitWith(inputSet) ==
    /\ \E in \in inputSet :
        /\ original_text = in.text
        /\ changes = in.changes
        /\ metadata = in.metadata
    /\ DOCX_AVAILABLE = "unset"
    /\ pc = "import"
    /\ steps = <<>>
    /\ error = "none"
    /\ doc = NoDoc
    /\ sorted_changes = <<>>
    /\ next_change = 0
    /\ result = <<>>
    /\ change_markers = <<>>
    /\ spliced = <<>>
    /\ paragraphs = <<>>
    /\ next_para = 0
    /\ para_text = <<>>
    /\ last_end = 0
    /\ built = <<>>
    /\ warnings = 0
    /\ saved = FALSE

\* main on an input file of Inputs
Init == InitWith(Inputs)

\* main on an input file of MarkedInputs
InitMarked == InitWith(MarkedInputs)

inputs == <<original_text, changes, metadata>>
apply_locals == <<sorted_changes, next_change, result, change_markers, spliced>>
content_locals == <<paragraphs, next_para, para_text, last_end, built>>

\* The import of lines 13-21: python-docx is there or it is not.
import_docx ==
    /\ pc = "import"
    /\ DOCX_AVAILABLE' \in BOOLEAN
    /\ pc' = "create"
    /\ UNCHANGED <<inputs, steps, error, doc, apply_locals, content_locals,
                   warnings, saved>>

\* create_track_changes_document, lines 27-31; main's handler, lines 250-252,
\* takes the RuntimeError.
create_document ==
    /\ pc = "create"
    /\ IF DOCX_AVAILABLE
       THEN /\ doc' = NewDocument
            /\ pc' = "enable_track_changes"
            /\ error' = error
       ELSE /\ error' = "RuntimeError"
            /\ pc' = "exit1"
            /\ doc' = doc
    /\ UNCHANGED <<DOCX_AVAILABLE, inputs, steps, apply_locals, content_locals,
                   warnings, saved>>

\* enable_track_changes, lines 52-70: the settings element is replaced, or the
\* failure is caught and a warning printed.
enable_track_changes ==
    /\ pc = "enable_track_changes"
    /\ steps' = Append(steps, "enable_track_changes")
    /\ \E replaced \in BOOLEAN :
        /\ doc' = [doc EXCEPT !.trackRevisions = replaced]
        /\ warnings' = IF replaced THEN warnings ELSE warnings + 1
    /\ pc' = "set_document_metadata"
    /\ UNCHANGED <<DOCX_AVAILABLE, inputs, error, apply_locals, content_locals, saved>>

\* set_document_metadata, lines 72-87
set_document_metadata ==
    /\ pc = "set_document_metadata"
    /\ steps' = Append(steps, "set_document_metadata")
    /\ doc' = [doc EXCEPT !.core = CoreProperties(metadata)]
    /\ pc' = "apply_track_changes_to_text"
    /\ UNCHANGED <<DOCX_AVAILABLE, inputs, error, apply_locals, content_locals,
                   warnings, saved>>

\* apply_track_changes_to_text, lines 92-95
apply_sort ==
    /\ pc = "apply_track_changes_to_text"
    /\ steps' = Append(steps, "apply_track_changes_to_text")
    /\ sorted_changes' = SortedByPositionDesc(changes)
    /\ next_change' = 1
    /\ result' = original_text
    /\ change_markers' = <<>>
    /\ pc' = "for_change"
    /\ UNCHANGED <<DOCX_AVAILABLE, inputs, error, doc, spliced, content_locals,
                   warnings, saved>>

\* One iteration of the loop, lines 97-119.
apply_change ==
    /\ pc = "for_change"
    /\ next_change <= Len(sorted_changes)
    /\ LET change == sorted_changes[next_change]
       IN  /\ change_markers' =
                 Append(change_markers, <<change.id, MarkerMeta(change)>>)
           /\ result' = Splice(result, change)
           /\ spliced' = Append(spliced, change.id)
    /\ next_change' = next_change + 1
    /\ UNCHANGED <<DOCX_AVAILABLE, inputs, pc, steps, error, doc, sorted_changes,
                   content_locals, warnings, saved>>

\* The return of line 121, and add_tracked_content up to its loop, line 127.
add_tracked_content ==
    /\ pc = "for_change"
    /\ next_change > Len(sorted_changes)
    /\ steps' = Append(steps, "add_tracked_content")
    /\ paragraphs' = Split(result)
    /\ next_para' = 1
    /\ pc' = "for_para_text"
    /\ UNCHANGED <<DOCX_AVAILABLE, inputs, error, doc, apply_locals, para_text,
                   last_end, built, warnings, saved>>

\* One iteration of the loop of add_tracked_content, lines 129-134, up to the
\* loop of add_tracked_runs_to_paragraph: a blank paragraph is skipped.
add_paragraph ==
    /\ pc = "for_para_text"
    /\ next_para <= Len(paragraphs)
    /\ IF IsBlank(paragraphs[next_para])
       THEN /\ next_para' = next_para + 1
            /\ UNCHANGED <<pc, doc, para_text, last_end>>
       ELSE /\ doc' = [doc EXCEPT !.body = Append(@, <<>>)]
            /\ para_text' = paragraphs[next_para]
            /\ last_end' = 0
            /\ pc' = "for_match"
            /\ next_para' = next_para
    /\ UNCHANGED <<DOCX_AVAILABLE, inputs, steps, error, apply_locals, paragraphs,
                   built, warnings, saved>>

\* One iteration of the loop of add_tracked_runs_to_paragraph, lines 145-171,
\* with add_insertion_run or add_deletion_run, lines 179-221.
add_tracked_run ==
    /\ pc = "for_match"
    /\ LET match == NextMatch(para_text, last_end)
       IN  /\ match.ok
           /\ LET normal_text == PySlice(para_text, last_end, match.start)
                  before == IF match.start > last_end
                            THEN AppendRun(doc, PlainRun(normal_text))
                            ELSE doc
                  change_meta == ChangeMeta(changes, match.id)
                  withRun == AppendRun(before, PlainRun(match.content))
                  markup == FragmentMarkup(match.kind, match.content, match.id,
                                           change_meta)
                  place == [para |-> Len(withRun.body),
                            run |-> Len(withRun.body[Len(withRun.body)])]
              IN  IF ~ {"author", "date"} \subseteq DOMAIN change_meta
                  THEN \* change_meta['author'] or change_meta['date']
                       /\ doc' = withRun
                       /\ error' = "KeyError"
                       /\ pc' = "exit1"
                       /\ UNCHANGED <<last_end, built, warnings>>
                  ELSE \E attached \in BOOLEAN :
                       /\ attached => MarkupParses(markup)
                       /\ doc' = IF attached
                                 THEN ReplaceLastRun(withRun, markup)
                                 ELSE ReplaceLastRun(withRun,
                                          FallbackRun(match.kind, match.content))
                       /\ warnings' = IF attached THEN warnings ELSE warnings + 1
                       /\ built' = Append(built,
                                     [markup |-> markup, kind |-> match.kind,
                                      content |-> match.content,
                                      attached |-> attached, place |-> place])
                       /\ last_end' = match.end
                       /\ UNCHANGED <<pc, error>>
    /\ UNCHANGED <<DOCX_AVAILABLE, inputs, steps, apply_locals, paragraphs,
                   next_para, para_text, saved>>

\* The end of add_tracked_runs_to_paragraph, lines 173-177.
add_remaining_text ==
    /\ pc = "for_match"
    /\ ~ NextMatch(para_text, last_end).ok
    /\ doc' = IF last_end < Len(para_text)
              THEN AppendRun(doc, PlainRun(PyFrom(para_text, last_end)))
              ELSE doc
    /\ next_para' = next_para + 1
    /\ pc' = "for_para_text"
    /\ UNCHANGED <<DOCX_AVAILABLE, inputs, steps, error, apply_locals, paragraphs,
                   para_text, last_end, built, warnings, saved>>

\* A save inside the loop of add_tracked_content, before its last paragraph.
save_InsideLoop ==
    /\ pc = "for_para_text"
    /\ steps' = Append(steps, "save")
    /\ saved' = TRUE
    /\ pc' = "exit0"
    /\ UNCHANGED <<DOCX_AVAILABLE, inputs, error, doc, apply_locals, content_locals,
                   warnings>>

\* doc.save, lines 46-50, once add_tracked_content has returned: the file is
\* written, or the write fails and main's handler takes the error.
save ==
    /\ pc = "for_para_text"
    /\ next_para > Len(paragraphs)
    /\ steps' = Append(steps, "save")
    /\ \E written \in BOOLEAN :
        /\ saved' = written
        /\ error' = IF written THEN error ELSE "OSError"
        /\ pc' = IF written THEN "exit0" ELSE "exit1"
    /\ UNCHANGED <<DOCX_AVAILABLE, inputs, doc, apply_locals, content_locals, warnings>>

Next ==
    \/ import_docx
    \/ create_document
    \/ enable_track_changes
    \/ set_document_metadata
    \/ apply_sort
    \/ apply_change
    \/ add_tracked_content
    \/ add_paragraph
    \/ add_tracked_run
    \/ add_remaining_text
    \/ save

Spec == Init /\ [][Next]_vars

SpecMarked == InitMarked /\ [][Next]_vars

-----------------------------------------------------------------------------
(* Vocabulary of the properties. *)

Range(seq) == {seq[k] : k \in 1..Len(seq)}

\* The call of apply_track_changes_to_text has returned.
ApplyReturned == "add_tracked_content" \in Range(steps)

\* The span of the original text an edit covers: [SpanStart, SpanEnd).
SpanStart(c) == c.position
SpanEnd(c) == IF c.type = "deletion" THEN c.position + Len(c.content) ELSE c.position

\* Two Deletions whose ranges intersect, or an Insertion strictly inside a
\* Deletion's range.
Overlap(c, d) ==
    \/ /\ c.type = "deletion" /\ d.type = "deletion"
       /\ SpanStart(c) < SpanEnd(d) /\ SpanStart(d) < SpanEnd(c)
    \/ /\ c.type = "insertion" /\ d.type = "deletion"
       /\ SpanStart(d) < c.position /\ c.position < SpanEnd(d)
    \/ /\ d.type = "insertion" /\ c.type = "deletion"
       /\ SpanStart(c) < d.position /\ d.position < SpanEnd(c)

NonOverlapping(cs) == \A i, j \in 1..Len(cs) : i # j => ~ Overlap(cs[i], cs[j])

DistinctPositions(cs) ==
    \A i, j \in 1..Len(cs) : i # j => cs[i].position # cs[j].position

UniqueIds(cs) == \A i, j \in 1..Len(cs) : cs[i].id = cs[j].id => i = j

\* Each Deletion's content is the original substring at its position.
DeletionsMatch(text, cs) ==
    \A k \in 1..Len(cs) :
        cs[k].type = "deletion" =>
            /\ SpanEnd(cs[k]) <= Len(text)
            /\ cs[k].content = PySlice(text, cs[k].position, SpanEnd(cs[k]))

\* The permutations of a batch.
BatchPermutations(cs) ==
    {[k \in 1..Len(cs) |-> cs[f[k]]] :
        f \in {g \in [1..Len(cs) -> 1..Len(cs)] :
                  \A i, j \in 1..Len(cs) : g[i] = g[j] => i = j}}

\* The texts of a sequence of segments, concatenated in order.
SegmentTexts(segs) == Concat([k \in 1..Len(segs) |-> segs[k].text])

\* The contents of the Insertions of cs at offset p of text, in the order of cs.
RECURSIVE InsertedAt(_, _, _)
InsertedAt(text, cs, p) ==
    IF cs = <<>> THEN <<>>
    ELSE (IF Head(cs).type = "insertion" /\ Min(Head(cs).position, Len(text)) = p
          THEN Head(cs).content ELSE <<>>)
         \o InsertedAt(text, Tail(cs), p)

\* text from offset p on, with every Insertion's content added at its
\* position and every character kept (a Deletion removes nothing).
RECURSIVE VisibleFrom(_, _, _)
VisibleFrom(text, cs, p) ==
    InsertedAt(text, cs, p)
        \o (IF p < Len(text) THEN <<text[p + 1]>> \o VisibleFrom(text, cs, p + 1)
            ELSE <<>>)

\* The texts that hold the original with the insertions added, whatever the
\* order of Insertions that share a position.
VisibleTexts(text, cs) == {VisibleFrom(text, q, 0) : q \in BatchPermutations(cs)}

-----------------------------------------------------------------------------
(* C1: for a batch with unique ids, non-overlapping spans and Deletions that  *)
(* match the original, the segments parsed from the annotated text, their     *)
(* texts concatenated in order, give the original text with every Insertion's *)
(* content added at its position and every Deletion's content retained.       *)
C1_RoundTrip ==
    (/\ ApplyReturned
     /\ UniqueIds(changes)
     /\ NonOverlapping(changes)
     /\ DeletionsMatch(original_text, changes))
        => SegmentTexts(Segments(result)) \in VisibleTexts(original_text, changes)

\* The fragments built for the edit of id change_id.
BuiltFor(change_id) == {k \in 1..Len(built) : built[k].markup.id = change_id}

\* What the k-th built fragment left in the document.
LeftBy(k) == doc.body[built[k].place.para][built[k].place.run]

(* C2: for a non-overlapping batch with unique ids, the saved document holds  *)
(* exactly one revision fragment per submitted edit, with that edit's id,     *)
(* kind and full content (or, where attaching failed, its marked run), for    *)
(* any content, line breaks and blank lines included.                         *)
C2_OneFragmentPerEdit ==
    (pc = "exit0" /\ UniqueIds(changes) /\ NonOverlapping(changes))
        => /\ Len(built) = Len(changes)
           /\ \A c \in Range(changes) :
                \E k \in BuiltFor(c.id) :
                    /\ BuiltFor(c.id) = {k}
                    /\ built[k].kind = KindTag(c.type)
                    /\ built[k].content = c.content
                    /\ built[k].markup.text = escape_xml(c.content)
                    /\ LeftBy(k) \in {built[k].markup,
                                      FallbackRun(built[k].kind, built[k].content)}

\* The edit of cs at position p, if any.
EditsAt(cs, p) == {k \in 1..Len(cs) : cs[k].position = p}

\* The original text from offset p on, each marker written where its edit's
\* position is met and a Deletion's characters left to its marker.
RECURSIVE MarkedFrom(_, _, _)
MarkedFrom(text, cs, p) ==
    IF p > Len(text) THEN <<>>
    ELSE LET here == EditsAt(cs, p)
             c == cs[CHOOSE k \in here : TRUE]
         IN  IF here = {}
             THEN PySlice(text, p, p + 1) \o MarkedFrom(text, cs, p + 1)
             ELSE IF c.type = "insertion"
             THEN Marker(c.type, c.id, c.content)
                      \o PySlice(text, p, p + 1) \o MarkedFrom(text, cs, p + 1)
             ELSE Marker(c.type, c.id, c.content) \o MarkedFrom(text, cs, SpanEnd(c))

(* C3: for a non-overlapping batch at pairwise distinct positions of the      *)
(* text, the annotated text is the same for every permutation of the          *)
(* submitted list, and holds each edit's marker at its offset of the          *)
(* original text.                                                             *)
C3_OrderIndependent ==
    (/\ ApplyReturned
     /\ NonOverlapping(changes)
     /\ DistinctPositions(changes)
     /\ DeletionsMatch(original_text, changes)
     /\ \A c \in Range(changes) : c.position <= Len(original_text))
        => /\ \A q \in BatchPermutations(changes) :
                apply_track_changes_to_text(original_text, q) = result
           /\ result = MarkedFrom(original_text, changes, 0)

\* A Deletion and an Insertion of one batch, at distinct positions, applied.
C3_Witness ==
    /\ ApplyReturned
    /\ NonOverlapping(changes)
    /\ DistinctPositions(changes)
    /\ \E i, j \in 1..Len(changes) :
        /\ i < j
        /\ changes[i].type = "insertion"
        /\ changes[j].type = "deletion"
        /\ changes[i].position > changes[j].position

Escaped(s) ==
    /\ \A k \in 1..Len(s) : s[k] \notin {"<", ">", "\"", "'"}
    /\ AmpersandsEscaped(s)

(* C4: in every fragment the encoder builds, each string taken from the edit  *)
(* (content, id, author, timestamp) is embedded with the five reserved        *)
(* characters escaped: no raw < > & " ' appears in the markup.                *)
C4_AllEscaped ==
    \A k \in 1..Len(built) :
        /\ Escaped(built[k].markup.text)
        /\ Escaped(built[k].markup.id)
        /\ Escaped(built[k].markup.author)
        /\ Escaped(built[k].markup.date)

HasMeta(change_id, key) ==
    \E c \in Range(changes) : c.id = change_id /\ key \in DOMAIN c

(* C5: encoding never fails for lack of metadata, and every fragment has a    *)
(* non-empty author: where the edit's id is not among the records, or its     *)
(* record has no author or date, "SMAIRS" and the current time stand in.      *)
C5_DefaultMetadata ==
    /\ error # "KeyError"
    /\ \A k \in 1..Len(built) :
        /\ built[k].markup.author # <<>>
        /\ ~ HasMeta(built[k].markup.id, "author")
              => built[k].markup.author = escape_xml(SMAIRS)
        /\ ~ HasMeta(built[k].markup.id, "date") => built[k].markup.date = NOW

\* The paragraphs that get a paragraph node, in order.
RECURSIVE NonBlank(_)
NonBlank(paras) ==
    IF paras = <<>> THEN <<>>
    ELSE (IF IsBlank(Head(paras)) THEN <<>> ELSE <<Head(paras)>>)
         \o NonBlank(Tail(paras))

\* Whether run or revision element r of the document encodes segment seg.
Encodes(r, seg) ==
    IF seg.kind = "plain"
    THEN r = PlainRun(seg.text)
    ELSE \/ r = FallbackRun(seg.kind, seg.text)
         \/ /\ r.tag = (IF seg.kind = INS THEN "w:ins" ELSE "w:del")
            /\ r.id = seg.id
            /\ r.text = escape_xml(seg.text)

\* Whether paragraph node para encodes the segments of text, in order.
EncodesAll(para, text) ==
    /\ Len(para) = Len(Segments(text))
    /\ \A k \in 1..Len(para) : Encodes(para[k], Segments(text)[k])

\* The run whose fragment markup was being built when the KeyError rose.
LastRun == doc.body[Len(doc.body)][Len(doc.body[Len(doc.body)])]

(* C6: when attaching the fragment of one edit fails, the run is not aborted: *)
(* the edit's text stays in the paragraph, at its place, as a marked run (an  *)
(* insertion highlighted, a deletion struck through and highlighted); an      *)
(* abort is never due to it; and a run that exits normally has encoded every  *)
(* segment of every paragraph, in order, and saved the document.              *)
C6_FallbackContinues ==
    /\ \A k \in 1..Len(built) :
        ~ built[k].attached =>
            /\ LeftBy(k).tag = "w:r"
            /\ LeftBy(k).text = built[k].content
            /\ LeftBy(k).highlight # 0
            /\ built[k].kind = DEL => LeftBy(k).strike
    /\ pc = "exit1" =>
        \/ error = "RuntimeError" /\ doc = NoDoc
        \/ error = "OSError" /\ "save" \in Range(steps)
        \/ /\ error = "KeyError"
           /\ \E c \in Range(changes) :
                /\ ~ {"author", "date"} \subseteq DOMAIN c
                /\ LastRun = PlainRun(c.content)
    /\ pc = "exit0" =>
        /\ saved
        /\ Len(doc.body) = Len(NonBlank(paragraphs))
        /\ \A i \in 1..Len(doc.body) :
            EncodesAll(doc.body[i], NonBlank(paragraphs)[i])

\* A saved document in which an edit fell back to its marked run and a later
\* edit of the same paragraph got its fragment.
C6_Witness ==
    /\ pc = "exit0"
    /\ saved
    /\ \E i, j \in 1..Len(built) :
        /\ i < j
        /\ ~ built[i].attached
        /\ built[j].attached
        /\ LeftBy(j) = built[j].markup

(* C7: a batch in which two edits' spans intersect is rejected with a fatal   *)
(* error before any splicing: nothing is spliced and no annotated text is     *)
(* returned for it.                                                           *)
C7_OverlapRejected ==
    ~ NonOverlapping(changes) => spliced = <<>> /\ ~ ApplyReturned

\* The tag "<lead>TRACK_<KIND>_<id>]" at 0-based offset s of text, if any.
TagAt(text, s, lead) ==
    LET kindAt == s + Len(lead) + Len(TRACK)
        kind == IF StartsWithAt(text, kindAt, INS) THEN INS ELSE DEL
        idAt == kindAt + Len(kind) + 1
        idEnd == IdEnd(text, idAt)
    IN  IF /\ StartsWithAt(text, s, lead \o TRACK)
           /\ StartsWithAt(text, kindAt, INS) \/ StartsWithAt(text, kindAt, DEL)
           /\ StartsWithAt(text, kindAt + Len(kind), <<"_">>)
           /\ idEnd # -1
        THEN [ok |-> TRUE, kind |-> kind, id |-> PySlice(text, idAt, idEnd),
              end |-> idEnd + 1]
        ELSE NoMatch

\* An opening tag whose next closing tag has another kind or id.
MismatchedCloser(text) ==
    \E s \in 0..(Len(text) - 1) :
        LET open == TagAt(text, s, <<"[">>)
            closers == {e \in open.end..(Len(text) - 1) :
                           TagAt(text, e, <<"[", "/">>).ok}
            close == TagAt(text, Least(closers), <<"[", "/">>)
        IN  /\ open.ok
            /\ closers # {}
            /\ close.kind # open.kind \/ close.id # open.id

\* An opening tag inside the span of a marker.
NestedMarker(text) ==
    \E s \in 0..(Len(text) - 1) :
        LET outer == MatchAt(text, s)
        IN  /\ outer.ok
            /\ \E t \in (s + 1)..(outer.end - 1) : TagAt(text, t, <<"[">>).ok

(* C8: a text in which an opening marker's closing tag has another kind or    *)
(* id, or in which a marker lies inside another marker's span, makes the      *)
(* marker parser report a parse error instead of emitting segments.           *)
C8_MalformedRejected ==
    \A i \in 1..Len(paragraphs) :
        (i < next_para /\ (MismatchedCloser(paragraphs[i]) \/ NestedMarker(paragraphs[i])))
            => error = "ParseError"

IsPrefix(a, b) == Len(a) <= Len(b) /\ a = SubSeq(b, 1, Len(a))

\* The steps begun so far, those of order only.
RECURSIVE Among(_, _)
Among(begun, order) ==
    IF begun = <<>> THEN <<>>
    ELSE (IF Head(begun) \in Range(order) THEN <<Head(begun)>> ELSE <<>>)
         \o Among(Tail(begun), order)

\* Save is begun only once every paragraph is populated, and only if no
\* earlier step raised.
SaveComesLast ==
    /\ "save" \in Range(steps) =>
        /\ next_para = Len(paragraphs) + 1
        /\ Len(doc.body) = Len(NonBlank(paragraphs))
        /\ error \in {"none", "OSError"}
    /\ saved => error = "none" /\ pc = "exit0"
    /\ error \in {"RuntimeError", "KeyError"} => "save" \notin Range(steps) /\ ~ saved

ClaimedOrder ==
    <<"set_document_metadata", "enable_track_changes", "add_tracked_content", "save">>

(* C9: the steps of create_track_changes_document occur in the order          *)
(* metadata setup, track-changes enablement, content population, save; save   *)
(* comes only after all content is populated and never after a step raised.   *)
C9_ClaimedOrder ==
    /\ IsPrefix(Among(steps, ClaimedOrder), ClaimedOrder)
    /\ SaveComesLast

\* The order of the calls in lines 34-48.
CodeOrder ==
    <<"enable_track_changes", "set_document_metadata", "apply_track_changes_to_text",
      "add_tracked_content", "save">>

(* C9, as amended: the steps occur in the order track-changes enablement,     *)
(* metadata setup, content population (the markers, then the paragraphs),     *)
(* save; save comes only after all content is populated and never after a     *)
(* step raised.                                                               *)
C9_CodeOrder ==
    /\ IsPrefix(steps, CodeOrder)
    /\ SaveComesLast

\* A run that went through every step and saved a document with content.
C9_Witness ==
    /\ pc = "exit0"
    /\ saved
    /\ steps = CodeOrder
    /\ built # <<>>

\* The place of the edit of id change_id in the submitted list.
Submitted(change_id) == CHOOSE k \in 1..Len(changes) : changes[k].id = change_id

\* Pairs of splices, the first before the second, of edits at one position.
Ties ==
    {t \in (1..Len(spliced)) \X (1..Len(spliced)) :
        /\ t[1] < t[2]
        /\ changes[Submitted(spliced[t[1]])].position
              = changes[Submitted(spliced[t[2]])].position}

(* C10: edits that share a position are spliced in the reverse of their       *)
(* submission order.                                                          *)
C10_TiesReversed ==
    \A t \in Ties : Submitted(spliced[t[1]]) > Submitted(spliced[t[2]])

(* C10, as amended: edits that share a position are spliced in their          *)
(* submission order, the earlier-submitted first.                             *)
C10_TiesInSubmissionOrder ==
    \A t \in Ties : Submitted(spliced[t[1]]) < Submitted(spliced[t[2]])

\* Two edits at one position, both spliced.
C10_Witness == Ties # {} /\ ApplyReturned

====
